---- MODULE Spec2Model ----
(***************************************************************************)
(* Collaborative-filtering recommenders ItemBasedCF and UserBasedCF        *)
(* (recommender_engine/recommender/CF_KNN_item_based.py and                *)
(* CF_KNN_user_based.py): one model instance, its fitted fields, and the   *)
(* two operations fit() and recommend().                                   *)
(*                                                                         *)
(* Numbers.  Interaction weights ("avg") are naturals; a missing (null)    *)
(* weight is NaN.  A cosine similarity is kept exactly as the pair         *)
(* [num, den] standing for num / sqrt(den); comparisons between            *)
(* similarities and against min_sim are exact (by squaring).  Where the    *)
(* code accumulates float scores, a similarity enters as the fixed-point   *)
(* number Approx(e) = floor(SCALE * num / sqrt(den)).                      *)
(***************************************************************************)
EXTENDS Integers, Sequences, FiniteSets, TLC

----------------------------------------------------------------------------
(* Bounds of the model *)

MaxWeight == 1
MaxRecs == 3
MaxLifeRecs == 2
MaxBadRecs == 1
MaxScenarioRecs == 5
MaxFits == 2
MaxTopN == 2
MaxMinOverlap == 1
SCALE == 100

MinSimDen == 10
DefaultK == 5
DefaultMinSimNum == 1
DefaultMinOverlap == 0

----------------------------------------------------------------------------
(* Python values *)

None == <<>>
Some(v) == <<v>>
NaN == -1

Min(a, b) == IF a < b THEN a ELSE b

RECURSIVE SumOver(_, _)
SumOver(S, f) ==
  IF S = {} THEN 0
  ELSE LET x == CHOOSE y \in S : TRUE IN f[x] + SumOver(S \ {x}, f)

Range(s) == {s[i] : i \in 1..Len(s)}
Reverse(s) == [i \in 1..Len(s) |-> s[Len(s) + 1 - i]]
IndexOf(s, x) == CHOOSE i \in 1..Len(s) : s[i] = x

----------------------------------------------------------------------------
(* Labels.  pandas sorts the labels of both axes of a pivot table; the    *)
(* sequences below give that order on the labels the model draws from.    *)

UserOrder == <<"U1", "U2">>
ColOrder == << <<"I1", "Trip">>, <<"I2", "Trip">>, <<"I3", "Trip">>, <<"I4", "Event">> >>
UnknownUser == "U9"
Users == Range(UserOrder)
AllCols == Range(ColOrder)
ItemTypes == {c[2] : c \in AllCols}

NameOf(c) == <<"name", c[1]>>
UnknownName(c) == <<"Unknown", c[2], c[1]>>

(* A row of the frame returned by fetch_interactions *)
Rec(u, c, w) == [user |-> u, item |-> c[1], type |-> c[2], name |-> NameOf(c), avg |-> w]
Key(r) == <<r.item, r.type>>

----------------------------------------------------------------------------
(* Interaction Matrix Builder: interactions.pivot_table(index="user",      *)
(* columns=["item","type"], values="avg", fill_value=0).  Rows whose avg   *)
(* is null do not reach the table; a cell without a record is 0.  The      *)
(* snapshots drawn below hold one record per (user, item, type).           *)

EmptyFrame == [index |-> <<>>, columns |-> <<>>, values |-> <<>>]

PivotTable(S) ==
  LET valid == {r \in S : r.avg # NaN}
      HasUser(u) == \E r \in valid : r.user = u
      HasCol(c) == \E r \in valid : Key(r) = c
      index == SelectSeq(UserOrder, HasUser)
      columns == SelectSeq(ColOrder, HasCol)
      Cell(u, c) == LET rs == {r \in valid : r.user = u /\ Key(r) = c}
                    IN IF rs = {} THEN 0 ELSE (CHOOSE r \in rs : TRUE).avg
  IN [index |-> index, columns |-> columns,
      values |-> [p \in Range(index) \X Range(columns) |-> Cell(p[1], p[2])]]

FrameEmpty(M) == Len(M.index) = 0 \/ Len(M.columns) = 0

(* interactions[['item','name','type']].drop_duplicates(...).set_index(...) *)
ItemNames(S) == [c \in {Key(r) : r \in S} |-> NameOf(c)]

----------------------------------------------------------------------------
(* Matrices, indexed by position (1-based) *)

RECURSIVE SumTo(_, _)
SumTo(n, f) == IF n = 0 THEN 0 ELSE f[n] + SumTo(n - 1, f)

(* csr_matrix(user_item_matrix.values): users as rows *)
UserRows(M) ==
  [nrow |-> Len(M.index), ncol |-> Len(M.columns),
   at |-> [p \in (1..Len(M.index)) \X (1..Len(M.columns)) |->
             M.values[<<M.index[p[1]], M.columns[p[2]]>>]]]

(* csr_matrix(user_item_matrix.T.values): items as rows *)
ItemRows(M) ==
  [nrow |-> Len(M.columns), ncol |-> Len(M.index),
   at |-> [p \in (1..Len(M.columns)) \X (1..Len(M.index)) |->
             M.values[<<M.index[p[2]], M.columns[p[1]]>>]]]

Dot(X, i, j) == SumTo(X.ncol, [k \in 1..X.ncol |-> X.at[<<i, k>>] * X.at[<<j, k>>]])

(* Exact similarity values: num / sqrt(den) *)
Zero == [num |-> 0, den |-> 1]
SimGt(e, p) == (e.num * MinSimDen) * (e.num * MinSimDen) > p * p * e.den
SimLess(e, f) == e.num * e.num * f.den < f.num * f.num * e.den
IsOne(e) == e.num > 0 /\ e.num * e.num = e.den
Isqrt(x) == CHOOSE r \in 0..SCALE : r * r <= x /\ x < (r + 1) * (r + 1)
Approx(e) == Isqrt((SCALE * SCALE * e.num * e.num) \div e.den)

(* sklearn cosine_similarity(X, dense_output=False): rows are L2-normalised *)
(* (a zero row stays zero), then multiplied with their transpose.           *)
cosine_similarity(X) ==
  [p \in (1..X.nrow) \X (1..X.nrow) |->
     LET d == Dot(X, p[1], p[2])
     IN IF d = 0 THEN Zero
        ELSE [num |-> d, den |-> Dot(X, p[1], p[1]) * Dot(X, p[2], p[2])]]

(* similarity.multiply(mask) *)
Multiply(A, mask) == [p \in DOMAIN A |-> IF mask[p] THEN A[p] ELSE Zero]

(* similarity > self.min_sim *)
MinSimMask(A, minsim) == [p \in DOMAIN A |-> SimGt(A[p], minsim)]

(* item-based: binarized.data = ones; overlap = binarized.dot(binarized.T)  *)
(* is the number of features on which both rows are nonzero.                *)
ItemOverlap(X) ==
  [p \in (1..X.nrow) \X (1..X.nrow) |->
     Cardinality({k \in 1..X.ncol : X.at[<<p[1], k>>] # 0 /\ X.at[<<p[2], k>>] # 0})]

(* user-based: X.astype(bool) @ X.transpose().astype(bool).  The product   *)
(* of two boolean sparse matrices is a boolean matrix (sum is "or"), whose  *)
(* entries compare as 0 or 1.                                               *)
UserOverlap(X) ==
  [p \in (1..X.nrow) \X (1..X.nrow) |->
     IF \E k \in 1..X.ncol : X.at[<<p[1], k>>] # 0 /\ X.at[<<p[2], k>>] # 0
     THEN 1 ELSE 0]

(* a floor that lets overlap = min_overlap through *)
OverlapMaskInclusive(O, minov) == [p \in DOMAIN O |-> O[p] >= minov]

(* overlap > self.min_overlap *)
OverlapMask(O, minov) == [p \in DOMAIN O |-> O[p] > minov]

ItemSimilarity(M, minsim, minov) ==
  LET X == ItemRows(M)
      similarity == cosine_similarity(X)
      floored == Multiply(similarity, MinSimMask(similarity, minsim))
  IN Multiply(floored, OverlapMask(ItemOverlap(X), minov))

UserSimilarity(M, minsim, minov) ==
  LET X == UserRows(M)
      raw_similarity == cosine_similarity(X)
      similarity_after_min_sim == Multiply(raw_similarity, MinSimMask(raw_similarity, minsim))
  IN Multiply(similarity_after_min_sim, OverlapMask(UserOverlap(X), minov))

----------------------------------------------------------------------------
(* Inputs *)

Weights == {NaN} \cup (0..MaxWeight)
MinSims == {0, 7, MinSimDen}
MinOverlaps == 0..MaxMinOverlap
PyNone == "None"
Truthy(t) == t # PyNone /\ t # ""

(* the sets of at most n records of pool with one record per (user, item, type) *)
RECURSIVE SnapshotsOver(_, _)
SnapshotsOver(pool, n) ==
  IF n = 0 THEN {{}}
  ELSE LET smaller == SnapshotsOver(pool, n - 1)
       IN smaller \cup
          {q[1] \cup {q[2]} : q \in
             {q \in smaller \X pool :
                \A x \in q[1] : x.user # q[2].user \/ Key(x) # Key(q[2])}}

Frame(S, bad) == [rows |-> S, malformed |-> bad]
Frames(snaps) ==
  {Frame(S, FALSE) : S \in snaps} \cup
  {Frame(S, TRUE) : S \in {T \in snaps : T # {} /\ Cardinality(T) <= MaxBadRecs}}

Cols == {<<"I1", "Trip">>, <<"I4", "Event">>}
Pool == {Rec(u, c, w) : <<u, c, w>> \in Users \X Cols \X Weights}
Snapshots == SnapshotsOver(Pool, MaxRecs)
LifeSnapshots == SnapshotsOver(Pool, MaxLifeRecs)
OnceFrames == Frames(Snapshots)
LifeFrames == Frames(LifeSnapshots)

(* for the fit alone, a third column *)
FitCols == Cols \cup {<<"I2", "Trip">>}
FitPool == {Rec(u, c, w) : <<u, c, w>> \in Users \X FitCols \X Weights}
FitSnapshots == SnapshotsOver(FitPool, MaxRecs)
FitFrames == Frames(FitSnapshots)

(* the scenario of the item-based recommender, and rows around it *)
Scenario ==
  {Rec("U1", <<"I1", "Trip">>, 5), Rec("U1", <<"I2", "Trip">>, 3),
   Rec("U2", <<"I1", "Trip">>, 4), Rec("U2", <<"I3", "Trip">>, 5)}
ScenarioPool ==
  Scenario \cup
  {Rec("U1", <<"I3", "Trip">>, 2), Rec("U2", <<"I2", "Trip">>, 1),
   Rec("U2", <<"I4", "Event">>, 1)}
ScenarioSnapshots == SnapshotsOver(ScenarioPool, MaxScenarioRecs)
ScenarioFrames == Frames(ScenarioSnapshots)

UserIds == Users \cup {UnknownUser}
TopNs == 1..MaxTopN
TypeArgs == {PyNone, ""} \cup ItemTypes

----------------------------------------------------------------------------
(* State: the fields of one model instance (kind tells which class it is), *)
(* the frame fetched by the most recent fit, and the most recent call with *)
(* the neighbours it selected (user-based recommend) and what it returned. *)

VARIABLES kind, k_neighbors, min_sim, min_overlap,
          item_similarity, user_similarity, user_item_matrix,
          item_columns, user_indices, item_names_df,
          interactions, nfit, call, similar_user_indices, result

config == <<kind, k_neighbors, min_sim, min_overlap>>
fitted == <<item_similarity, user_similarity, user_item_matrix,
            item_columns, user_indices, item_names_df>>
vars == <<config, fitted, interactions, nfit, call, similar_user_indices, result>>

NoCall == [op |-> "none", user_id |-> "", top_n |-> 0, item_type |-> PyNone]
NoResult == [status |-> "none", columns |-> <<>>, rows |-> <<>>]

(* __init__ *)
Construct(kd, k, ms, mo) ==
  /\ kind = kd
  /\ k_neighbors = k
  /\ min_sim = ms
  /\ min_overlap = mo
  /\ item_similarity = None
  /\ user_similarity = None
  /\ user_item_matrix = None
  /\ item_columns = None
  /\ user_indices = None
  /\ item_names_df = None
  /\ interactions = None
  /\ nfit = 0
  /\ call = NoCall
  /\ similar_user_indices = <<>>
  /\ result = NoResult

(* an instance built with the default arguments *)
Init ==
  \E kd \in {"item", "user"} : Construct(kd, DefaultK, DefaultMinSimNum, DefaultMinOverlap)

(* an instance built with any similarity floors; k_neighbors is not read  *)
(* by fit                                                                  *)
InitAny ==
  \E kd \in {"item", "user"}, ms \in MinSims, mo \in MinOverlaps :
     Construct(kd, DefaultK, ms, mo)

(* the item-based instance of the scenario: min_sim = 0, min_overlap = 0 *)
InitScenario == Construct("item", DefaultK, 0, 0)

----------------------------------------------------------------------------
(* fit.  F is the frame returned by fetch_interactions: its rows, and     *)
(* whether pivot_table raises ValueError on it.                            *)

ItemFit(F) ==
  /\ kind = "item"
  /\ interactions' = Some(F)
  /\ nfit' = nfit + 1
  /\ call' = [NoCall EXCEPT !.op = "fit"]
  /\ similar_user_indices' = <<>>
  /\ result' = NoResult
  /\ item_names_df' = Some(ItemNames(F.rows))
  /\ UNCHANGED <<config, user_similarity>>
  /\ IF F.rows = {} \/ F.malformed
     THEN UNCHANGED <<item_similarity, user_item_matrix, item_columns, user_indices>>
     ELSE LET M == PivotTable(F.rows)
          IN /\ user_item_matrix' = Some(M)
             /\ IF FrameEmpty(M)
                THEN UNCHANGED <<item_similarity, item_columns, user_indices>>
                ELSE /\ user_indices' = Some(M.index)
                     /\ item_columns' = Some(M.columns)
                     /\ item_similarity' = Some(ItemSimilarity(M, min_sim, min_overlap))

UserFit(F) ==
  /\ kind = "user"
  /\ interactions' = Some(F)
  /\ nfit' = nfit + 1
  /\ call' = [NoCall EXCEPT !.op = "fit"]
  /\ similar_user_indices' = <<>>
  /\ result' = NoResult
  /\ item_names_df' = Some(ItemNames(F.rows))
  /\ UNCHANGED <<config, item_similarity>>
  /\ IF F.rows = {} \/ F.malformed
     THEN UNCHANGED <<user_similarity, user_item_matrix, item_columns, user_indices>>
     ELSE LET M == PivotTable(F.rows)
          IN /\ user_item_matrix' = Some(M)
             /\ IF FrameEmpty(M)
                THEN UNCHANGED <<user_similarity, item_columns, user_indices>>
                ELSE /\ user_indices' = Some(M.index)
                     /\ item_columns' = Some(M.columns)
                     /\ user_similarity' = Some(UserSimilarity(M, min_sim, min_overlap))

----------------------------------------------------------------------------
(* recommend: what it returns.  A result is a DataFrame (its columns and  *)
(* its rows in order) or the exception the call ended in.                  *)

ItemEmptyColumns == <<"rank", "item", "type", "name", "score">>
UserEmptyColumns == <<"rank", "user", "item", "type", "name", "score">>
ResultColumns == <<"rank", "item", "type", "name", "score">>

EmptyResult(cols) == [status |-> "ok", columns |-> cols, rows |-> <<>>]
Raised(e) == [status |-> e, columns |-> <<>>, rows |-> <<>>]

(* a ranking that forgets to drop the items the user already rated *)
CandidatesKeepRated(cols, M, user_id, item_type) ==
  LET Keep(c) == Truthy(item_type) => c[2] = item_type
  IN SelectSeq(cols, Keep)

(* scores.drop(interacted_items); if item_type: keep the rows of that type *)
Candidates(cols, M, user_id, item_type) ==
  LET Keep(c) == /\ ~(M.values[<<user_id, c>>] > 0)
                 /\ (Truthy(item_type) => c[2] = item_type)
  IN SelectSeq(cols, Keep)

RemoveAt(s, i) == [j \in 1..(Len(s) - 1) |-> IF j < i THEN s[j] ELSE s[j + 1]]

(* Series.nlargest(n), keep='first': descending score, ties in index order *)
RECURSIVE nlargest(_, _, _)
nlargest(cand, score, n) ==
  IF n <= 0 \/ cand = <<>> THEN <<>>
  ELSE LET i == CHOOSE a \in 1..Len(cand) :
                  /\ \A b \in 1..Len(cand) : score[cand[b]] <= score[cand[a]]
                  /\ \A b \in 1..(a - 1) : score[cand[b]] < score[cand[a]]
       IN <<cand[i]>> \o nlargest(RemoveAt(cand, i), score, n - 1)

(* the loop building the list of recommendation dicts *)
Recommendations(top, score, names) ==
  [i \in 1..Len(top) |->
     [rank |-> i, item |-> top[i][1], type |-> top[i][2],
      name |-> IF top[i] \in DOMAIN names THEN names[top[i]] ELSE UnknownName(top[i]),
      score |-> score[top[i]]]]

(* pd.DataFrame(recommendations)[['rank','item','type','name','score']]:   *)
(* a frame built from an empty list has no columns, and selecting columns  *)
(* from it raises KeyError.                                                *)
SelectColumns(recs) ==
  IF recs = <<>> THEN Raised("KeyError")
  ELSE [status |-> "ok", columns |-> ResultColumns, rows |-> recs]

(* item-based: scores = pd.Series(0, index=item_columns), then for every   *)
(* item the user rated above 0, in column order:                           *)
(*   scores += rating * item_similarity[item_index]                        *)
RECURSIVE ItemScoresLoop(_, _, _, _, _)
ItemScoresLoop(rated, M, cols, sim, user_id) ==
  IF rated = <<>> THEN [c \in Range(cols) |-> 0]
  ELSE LET n == Len(rated)
           scores == ItemScoresLoop(SubSeq(rated, 1, n - 1), M, cols, sim, user_id)
           rating == M.values[<<user_id, rated[n]>>]
           item_index == IndexOf(cols, rated[n])
       IN [c \in Range(cols) |->
             scores[c] + rating * Approx(sim[<<item_index, IndexOf(cols, c)>>])]

(* an accumulation that forgets the rating: scores += item_similarity[item_index] *)
ItemScoresUnweighted(M, cols, sim, user_id) ==
  [c \in Range(cols) |->
     LET rated == {j \in Range(M.columns) : M.values[<<user_id, j>>] > 0}
     IN SumOver(rated, [j \in rated |-> Approx(sim[<<IndexOf(cols, j), IndexOf(cols, c)>>])])]

ItemScores(M, cols, sim, user_id) ==
  LET Rated(c) == M.values[<<user_id, c>>] > 0
  IN ItemScoresLoop(SelectSeq(M.columns, Rated), M, cols, sim, user_id)

ItemRecommendResult(user_id, top_n, item_type) ==
  IF item_similarity = None \/ user_item_matrix = None
  THEN EmptyResult(ItemEmptyColumns)
  ELSE IF user_id \notin Range(user_indices[1])
  THEN EmptyResult(ItemEmptyColumns)
  ELSE LET M == user_item_matrix[1]
           cols == item_columns[1]
       IN IF user_id \notin Range(M.index)
          THEN Raised("KeyError")
          ELSE LET scores == ItemScores(M, cols, item_similarity[1], user_id)
                   top_items == nlargest(Candidates(cols, M, user_id, item_type), scores, top_n)
               IN SelectColumns(Recommendations(top_items, scores, item_names_df[1]))

(* np.argsort(similarity_scores): any ascending order of the positions;   *)
(* the order of equal scores is not fixed by the sort.                     *)
ArgSorts(row) ==
  LET n == Len(row)
  IN {p \in [1..n -> 1..n] :
        /\ \A i, j \in 1..n : i # j => p[i] # p[j]
        /\ \A i, j \in 1..n : i < j => ~SimLess(row[p[j]], row[p[i]])}

(* np.argsort(similarity_scores)[::-1][1:self.k_neighbors + 1] *)
TopNeighbors(order, k) ==
  SubSeq(Reverse(order), 2, Min(k + 1, Len(order)))

SimilarityRow(sim, n, i) == [j \in 1..n |-> sim[<<i, j>>]]

(* user-based: item_scores += neighbor_ratings * similar_user_weights[i] *)
UserScores(M, cols, uidx, nbrs, row) ==
  [c \in Range(cols) |->
     SumTo(Len(nbrs), [i \in 1..Len(nbrs) |->
        M.values[<<uidx[nbrs[i]], c>>] * Approx(row[nbrs[i]])])]

UserRecommendResult(user_id, top_n, item_type, order) ==
  LET M == user_item_matrix[1]
      cols == item_columns[1]
      uidx == user_indices[1]
      row == SimilarityRow(user_similarity[1], Len(uidx), IndexOf(uidx, user_id))
      nbrs == TopNeighbors(order, k_neighbors)
  IN IF user_id \notin Range(M.index) \/ \E i \in 1..Len(nbrs) : uidx[nbrs[i]] \notin Range(M.index)
     THEN Raised("KeyError")
     ELSE LET item_scores == UserScores(M, cols, uidx, nbrs, row)
              top_ranked_items == nlargest(Candidates(cols, M, user_id, item_type), item_scores, top_n)
          IN SelectColumns(Recommendations(top_ranked_items, item_scores, item_names_df[1]))

UserUnfit ==
  user_similarity = None \/ user_indices = None \/ user_item_matrix = None \/ item_columns = None

----------------------------------------------------------------------------
(* recommend *)

ItemRecommend(user_id, top_n, item_type) ==
  /\ kind = "item"
  /\ call' = [op |-> "recommend", user_id |-> user_id, top_n |-> top_n, item_type |-> item_type]
  /\ similar_user_indices' = <<>>
  /\ result' = ItemRecommendResult(user_id, top_n, item_type)
  /\ UNCHANGED <<config, fitted, interactions, nfit>>

UserRecommend(user_id, top_n, item_type) ==
  /\ kind = "user"
  /\ call' = [op |-> "recommend", user_id |-> user_id, top_n |-> top_n, item_type |-> item_type]
  /\ IF UserUnfit
     THEN /\ similar_user_indices' = <<>>
          /\ result' = EmptyResult(UserEmptyColumns)
     ELSE IF user_id \notin Range(user_indices[1])
     THEN /\ similar_user_indices' = <<>>
          /\ result' = EmptyResult(UserEmptyColumns)
     ELSE \E order \in ArgSorts(SimilarityRow(user_similarity[1], Len(user_indices[1]),
                                              IndexOf(user_indices[1], user_id))) :
            /\ similar_user_indices' = TopNeighbors(order, k_neighbors)
            /\ result' = UserRecommendResult(user_id, top_n, item_type, order)
  /\ UNCHANGED <<config, fitted, interactions, nfit>>

----------------------------------------------------------------------------
(* Any sequence of calls on one instance built with the defaults *)

ItemRecommendAny == \E u \in UserIds, n \in TopNs, t \in TypeArgs : ItemRecommend(u, n, t)
UserRecommendAny == \E u \in UserIds, n \in TopNs, t \in TypeArgs : UserRecommend(u, n, t)

Next ==
  \/ nfit < MaxFits /\ \E F \in LifeFrames : ItemFit(F)
  \/ nfit < MaxFits /\ \E F \in LifeFrames : UserFit(F)
  \/ ItemRecommendAny
  \/ UserRecommendAny

Spec == Init /\ [][Next]_vars

(* A fresh instance built with the defaults, fitted once and then queried, *)
(* as the scripts at the end of both files do                              *)

NextOnce ==
  \/ nfit = 0 /\ \E F \in OnceFrames : ItemFit(F)
  \/ nfit = 0 /\ \E F \in OnceFrames : UserFit(F)
  \/ ItemRecommendAny
  \/ UserRecommendAny

SpecOnce == Init /\ [][NextOnce]_vars

(* The fit of a fresh instance, under any similarity floors *)

NextFit ==
  \/ nfit = 0 /\ \E F \in FitFrames : ItemFit(F)
  \/ nfit = 0 /\ \E F \in FitFrames : UserFit(F)

SpecFit == InitAny /\ [][NextFit]_vars

(* The item-based instance of the scenario, fitted once and then queried *)

NextScenario ==
  \/ nfit = 0 /\ \E F \in ScenarioFrames : ItemFit(F)
  \/ ItemRecommendAny

SpecScenario == InitScenario /\ [][NextScenario]_vars

----------------------------------------------------------------------------
(* Properties *)

Recommended == call.op = "recommend"
Similarity == IF kind = "item" THEN item_similarity ELSE user_similarity
FitSimilarity(M) ==
  IF kind = "item" THEN ItemSimilarity(M, min_sim, min_overlap)
  ELSE UserSimilarity(M, min_sim, min_overlap)

(* recommend finds a fitted model: the fields its first test reads are set *)
Ready ==
  IF kind = "item" THEN item_similarity # None /\ user_item_matrix # None
  ELSE ~UserUnfit
KnownUser == Ready /\ call.user_id \in Range(user_indices[1])

AllUnset ==
  /\ user_item_matrix = None
  /\ user_indices = None
  /\ item_columns = None
  /\ Similarity = None
  /\ item_names_df = None

AllFrom(S) ==
  LET M == PivotTable(S)
  IN /\ item_names_df = Some(ItemNames(S))
     /\ user_item_matrix = Some(M)
     /\ user_indices = Some(M.index)
     /\ item_columns = Some(M.columns)
     /\ Similarity = Some(FitSimilarity(M))

(* C1: after any sequence of fit calls, the fitted fields (interaction    *)
(* matrix, row labels, column labels, similarity matrix, item metadata)    *)
(* are all unset or all derived from one and the same snapshot.            *)
C1_FitAtomic ==
  AllUnset \/ \E S \in LifeSnapshots : AllFrom(S)

(* C2: whenever the most recent fit was on an empty interaction set, a     *)
(* recommend call returns an empty list and raises nothing, also when an   *)
(* earlier fit on non-empty data had succeeded.                            *)
C2_EmptyFitSafe ==
  (Recommended /\ interactions # None /\ interactions[1].rows = {})
     => (result.status = "ok" /\ result.rows = <<>>)

(* the candidate items of the call: those of the fitted columns the user   *)
(* has no weight > 0 on, of the requested type when recommend filters by   *)
(* type (C7 is about the labels for which it does)                         *)
Remaining ==
  {c \in Range(item_columns[1]) :
     /\ ~(user_item_matrix[1].values[<<call.user_id, c>>] > 0)
     /\ (Truthy(call.item_type) => c[2] = call.item_type)}

(* C3: for a fitted model and a user of the row labels, recommend does not *)
(* end in an error: it returns at most top_n records, and an empty list    *)
(* when no candidate item remains.                                         *)
C3_RecommendNeverRaises ==
  (Recommended /\ KnownUser)
     => /\ result.status = "ok"
        /\ Len(result.rows) <= call.top_n
        /\ (call.user_id \in Range(user_item_matrix[1].index) /\ Remaining = {}
              => result.rows = <<>>)

(* C4: the empty result recommend returns for an unfitted model or an      *)
(* unknown user has zero rows and the columns, in order, of a populated    *)
(* result: rank, item, type, name, score.                                  *)
C4_EmptyResultShape ==
  (Recommended /\ ~KnownUser)
     => /\ result.status = "ok"
        /\ result.rows = <<>>
        /\ result.columns = ResultColumns

Weight(u, c) == user_item_matrix[1].values[<<u, c>>]
ReturnedItems == {<<result.rows[i].item, result.rows[i].type>> : i \in 1..Len(result.rows)}

(* C5: no (item, type) pair on which the target user has a weight > 0      *)
(* appears in the output of recommend, for either recommender.             *)
C5_NoSelfRecommendation ==
  (Recommended /\ result.status = "ok")
     => \A c \in ReturnedItems : ~(Weight(call.user_id, c) > 0)

(* C5 happens: recommend returned records to a user who has a weight > 0   *)
(* on some item, from neighbours' weights or similarities that are not 0.  *)
C5_Witness ==
  /\ Recommended
  /\ result.status = "ok"
  /\ result.rows # <<>>
  /\ \E c \in Range(item_columns[1]) : Weight(call.user_id, c) > 0
  /\ \E i \in 1..Len(result.rows) : result.rows[i].score > 0

(* the rows the similarity is computed over: items or users *)
FitRows == IF kind = "item" THEN ItemRows(user_item_matrix[1]) ELSE UserRows(user_item_matrix[1])
NonZeros(X, a) == {k \in 1..X.ncol : X.at[<<a, k>>] # 0}
CoOccurrence(X, a, b) == Cardinality(NonZeros(X, a) \cap NonZeros(X, b))
Norm2(X, a) == SumTo(X.ncol, [k \in 1..X.ncol |-> X.at[<<a, k>>] * X.at[<<a, k>>]])
RawCosine(X, a, b) ==
  IF Norm2(X, a) = 0 \/ Norm2(X, b) = 0 \/ Dot(X, a, b) = 0 THEN Zero
  ELSE [num |-> Dot(X, a, b), den |-> Norm2(X, a) * Norm2(X, b)]
Fitted == Similarity # None /\ user_item_matrix # None /\ ~FrameEmpty(user_item_matrix[1])

(* C6: entry (a, b) of the fitted similarity matrix is the raw cosine of   *)
(* a and b when that is > min_sim and the number of positions where both   *)
(* are nonzero is > min_overlap, and 0 otherwise; a zero row has           *)
(* similarity 0 with every row.                                            *)
C6_SimilarityMasking ==
  Fitted =>
    LET X == FitRows
    IN \A a, b \in 1..X.nrow :
         /\ Similarity[1][<<a, b>>] =
              IF SimGt(RawCosine(X, a, b), min_sim) /\ CoOccurrence(X, a, b) > min_overlap
              THEN RawCosine(X, a, b) ELSE Zero
         /\ (NonZeros(X, a) = {} => Similarity[1][<<a, b>>] = Zero)

(* C7: whenever recommend is called with an item_type label, whatever the  *)
(* label, every returned record has exactly that type.                     *)
C7_TypeFilter ==
  (Recommended /\ call.item_type # PyNone /\ result.status = "ok")
     => \A i \in 1..Len(result.rows) : result.rows[i].type = call.item_type

(* C8: in the user-based recommend, for a fitted model and a known user,   *)
(* the neighbours used for the scores never include the target user and    *)
(* are the k_neighbors other users most similar to the target (all other   *)
(* users when there are fewer).  Stated for a target user who has a       *)
(* weight > 0 on some item.                                                *)
TargetRated ==
  /\ call.user_id \in Range(user_item_matrix[1].index)
  /\ \E c \in Range(user_item_matrix[1].columns) : Weight(call.user_id, c) > 0

C8_NeighborsExcludeTarget ==
  (Recommended /\ kind = "user" /\ KnownUser /\ TargetRated) =>
    LET uidx == user_indices[1]
        target == IndexOf(uidx, call.user_id)
        others == (1..Len(uidx)) \ {target}
        nbrs == Range(similar_user_indices)
        row == SimilarityRow(user_similarity[1], Len(uidx), target)
    IN /\ target \notin nbrs
       /\ Cardinality(nbrs) = Min(k_neighbors, Cardinality(others))
       /\ \A i \in nbrs, j \in others \ nbrs : ~SimLess(row[i], row[j])

Diagonal(a) == Similarity[1][<<a, a>>]

Position(c) == IndexOf(item_columns[1], c)
ClaimedScore(u, c) ==
  LET rated == {j \in Range(item_columns[1]) : Weight(u, j) > 0}
  IN SumOver(rated, [j \in rated |->
       Weight(u, j) * Approx(item_similarity[1][<<Position(j), Position(c)>>])])
NotReturned == Remaining \ ReturnedItems
I1 == <<"I1", "Trip">>
I3 == <<"I3", "Trip">>
ScenarioCall ==
  /\ Recommended
  /\ interactions = Some(Frame(Scenario, FALSE))
  /\ call.user_id = "U1" /\ call.top_n = 1 /\ call.item_type = "Trip"

(* C10: in the item-based recommend, the score of every returned item i is *)
(* the sum over the items j the user has weight > 0 on of weight(user, j)  *)
(* times sim(j, i); the returned items are the top_n highest-scoring       *)
(* candidates in descending score order; and in the scenario (min_sim = 0, *)
(* min_overlap = 0) recommend(U1, 1, Trip) returns I3 with score           *)
(* 5 * sim(I1, I3), where sim(I1, I3) = 20 / sqrt(41 * 25).                *)
C10_ItemScores ==
  /\ (Recommended /\ kind = "item" /\ result.status = "ok" /\ result.rows # <<>>) =>
       LET rows == result.rows
           n == Len(rows)
       IN /\ \A i \in 1..n :
               rows[i].score = ClaimedScore(call.user_id, <<rows[i].item, rows[i].type>>)
          /\ n = Min(call.top_n, Cardinality(Remaining))
          /\ Cardinality(ReturnedItems) = n
          /\ ReturnedItems \subseteq Remaining
          /\ \A i, j \in 1..n : i < j => rows[i].score >= rows[j].score
          /\ \A c \in NotReturned : ClaimedScore(call.user_id, c) <= rows[n].score
  /\ ScenarioCall =>
       /\ result.status = "ok"
       /\ Len(result.rows) = 1
       /\ result.rows[1].item = "I3"
       /\ result.rows[1].rank = 1
       /\ item_similarity[1][<<Position(I1), Position(I3)>>] = [num |-> 20, den |-> 41 * 25]
       /\ result.rows[1].score =
            5 * Approx(item_similarity[1][<<Position(I1), Position(I3)>>])
       /\ result.rows[1].score > 0

(* C10 happens: the scenario was fitted and recommend(U1, 1, Trip) returned *)
C10_Witness ==
  /\ ScenarioCall
  /\ result.rows # <<>>
  /\ result.rows[1].item = "I3"

====
